---- MODULE Spec2Model ----
(***************************************************************************)
(* The manifest editors of Hermes: Scripts/xcode_add_file.py and           *)
(* Scripts/xcode_remove_file.py, which edit Hermes.xcodeproj/project.pbxproj*)
(* with regular expressions.                                               *)
(*                                                                         *)
(* The manifest text is a sequence of tokens.  A token is an identifier    *)
(* (24 hex digits in the file), a word, a file name, a punctuation mark,   *)
(* "/*" or "*/", a section marker line, a newline "\n" or a run of tabs    *)
(* "\t".  The single spaces the file has between the tokens of one line    *)
(* are not tokens: two neighbouring tokens stand for the two texts with    *)
(* the file's one space (or nothing, after punctuation) between them.      *)
(* Every regular expression of the scripts is a sequence of items (a token *)
(* class and a quantifier) matched the way Python's re matches: leftmost,  *)
(* greedy, backtracking, non-overlapping.                                  *)
(*                                                                         *)
(* Spec runs the two scripts, in any order, on a manifest in Xcode's       *)
(* layout.  NormSpec runs cleanup_project_file alone, twice, on every      *)
(* short text; ScanSpec runs find_uuids_for_file alone on one record.      *)
(* An identifier is one token, so a text in which an identifier is part of *)
(* a longer run of hex digits is outside the model, and so is a text with  *)
(* spaces where the file has none (between a comma and a parenthesis).     *)
(***************************************************************************)
EXTENDS Integers, Sequences, FiniteSets, TLC

VARIABLES content, hist

vars == <<content, hist>>

(***************************************************************************)
(* Bounds                                                                  *)
(***************************************************************************)
MaxOps == 2      \* invocations of the scripts in one behaviour
MaxFiles == 3    \* source files the initial manifest holds
MaxLen == 4      \* tokens of a text handed to the normalizer alone

(***************************************************************************)
(* Tokens                                                                  *)
(***************************************************************************)
MAIN_TARGET_SOURCES_UUID == "8D11072C0486CEB800E47090"

BeginBuildFile == "/* Begin PBXBuildFile section */"
EndBuildFile == "/* End PBXBuildFile section */"
BeginFileReference == "/* Begin PBXFileReference section */"
EndFileReference == "/* End PBXFileReference section */"

Markers == {BeginBuildFile, EndBuildFile, BeginFileReference, EndFileReference}

\* The file-reference and build-file identifiers of the i-th initial file,
\* and the k-th identifier the generator hands out.
RefId(i) == "A" \o ToString(i)
BldId(i) == "B" \o ToString(i)
NewId(k) == "N" \o ToString(k)

GroupId == "G1"
ResourcesId == "R1"
RecordId == "E1"

IdRange == 1..(MaxFiles + 2 * MaxOps + 2)

\* [A-F0-9]{24}
Ids ==
  {RefId(i) : i \in IdRange} \cup {BldId(i) : i \in IdRange}
    \cup {NewId(k) : k \in IdRange}
    \cup {MAIN_TARGET_SOURCES_UUID, GroupId, ResourcesId, RecordId}

\* \s
WS == {"\n", "\t"}

\* \w+ : the tokens made of word characters only
Words ==
  {"Sources", "Resources", "Utilities", "Icons", "English", "in", "isa",
   "path", "name", "children", "files", "fileRef", "PBXBuildFile",
   "PBXFileReference", "PBXGroup", "PBXSourcesBuildPhase",
   "PBXResourcesBuildPhase", "SOURCE_ROOT", "lastKnownFileType",
   "sourceTree", "x"}

\* the tokens that hold a '*'
Stars == {"/*", "*/"} \cup Markers

(***************************************************************************)
(* Regular expressions over tokens                                         *)
(***************************************************************************)
Lit(t) == [c |-> {t}, neg |-> FALSE, q |-> "1"]
One(S) == [c |-> S, neg |-> FALSE, q |-> "1"]
Opt(S) == [c |-> S, neg |-> FALSE, q |-> "?"]
Star(S) == [c |-> S, neg |-> FALSE, q |-> "*"]
NotStar(S) == [c |-> S, neg |-> TRUE, q |-> "*"]

LitSeq(ts) == [k \in 1..Len(ts) |-> Lit(ts[k])]

Matches(it, t) == (t \in it.c) # it.neg

RECURSIVE RunLen(_, _, _)
\* how many tokens from position i on are in the item's class
RunLen(it, s, i) ==
  IF i <= Len(s) /\ Matches(it, s[i]) THEN 1 + RunLen(it, s, i + 1) ELSE 0

RECURSIVE MatchFrom(_, _, _, _)
RECURSIVE Backtrack(_, _, _, _, _)
\* The position after the match of items k.. of p at position i of s, as
\* re's backtracking finds it first; 0 when there is none.
MatchFrom(p, s, k, i) ==
  IF k > Len(p) THEN i
  ELSE LET it == p[k]
           hit == i <= Len(s) /\ Matches(it, s[i])
       IN CASE it.q = "1" -> IF hit THEN MatchFrom(p, s, k + 1, i + 1) ELSE 0
            [] it.q = "?" ->
                 LET r == IF hit THEN MatchFrom(p, s, k + 1, i + 1) ELSE 0
                 IN IF r # 0 THEN r ELSE MatchFrom(p, s, k + 1, i)
            [] OTHER -> Backtrack(p, s, k, i, RunLen(it, s, i))

\* a greedy star: the longest run first, then one token less
Backtrack(p, s, k, i, n) ==
  LET r == MatchFrom(p, s, k + 1, i + n)
  IN IF r # 0 THEN r
     ELSE IF n = 0 THEN 0
     ELSE Backtrack(p, s, k, i, n - 1)

RECURSIVE MatchAlt(_, _, _, _)
\* alternatives in order: (?:X)? is X first, then nothing
MatchAlt(alts, s, a, i) ==
  IF a > Len(alts) THEN 0
  ELSE LET r == MatchFrom(alts[a], s, 1, i)
       IN IF r # 0 THEN r ELSE MatchAlt(alts, s, a + 1, i)

\* The items a match of p can start with: those up to its first item that
\* must take a token.
Leading(p) ==
  {k \in 1..Len(p) : \A j \in 1..(k - 1) : p[j].q # "1"}

\* The positions of s at which p matches.  A match starts with a token of
\* one of the leading items, so only those positions are tried.
StartsOf(p, s) ==
  LET lead == Leading(p)
      any == \E k \in lead : p[k].neg
      first == UNION {p[k].c : k \in lead}
  IN {i \in 1..Len(s) : (any \/ s[i] \in first) /\ MatchFrom(p, s, 1, i) # 0}

\* The positions of s at which some alternative matches.
MatchStarts(alts, s) == UNION {StartsOf(alts[a], s) : a \in 1..Len(alts)}

RECURSIVE NonOverlapping(_, _, _, _)
\* re walks s from left to right, takes the first position at which the
\* pattern matches, and goes on from the end of that match: the matches,
\* each <<start, position after its end>>, from position `from` on.
NonOverlapping(alts, s, starts, from) ==
  LET rest == {i \in starts : i >= from}
  IN IF rest = {} THEN <<>>
     ELSE LET i == CHOOSE x \in rest : \A y \in rest : x <= y
              e == MatchAlt(alts, s, 1, i)
          IN << <<i, e>> >> \o NonOverlapping(alts, s, starts, e)

AllMatches(alts, s) == NonOverlapping(alts, s, MatchStarts(alts, s), 1)

\* a replacement: the tokens `const`, then (tail) the match less its first token
Repl(const, tail) == [const |-> const, tail |-> tail]

RECURSIVE Rebuild(_, _, _, _, _)
Rebuild(s, hits, repl, k, from) ==
  IF k > Len(hits) THEN SubSeq(s, from, Len(s))
  ELSE SubSeq(s, from, hits[k][1] - 1)
         \o repl.const
         \o (IF repl.tail THEN SubSeq(s, hits[k][1] + 1, hits[k][2] - 1) ELSE <<>>)
         \o Rebuild(s, hits, repl, k + 1, hits[k][2])

\* An operator that is handed a text takes it as text0 and binds it with
\* "text \in {text0}": the text is then worked out once, before the operator
\* starts on it, whatever expression the caller wrote for it.
Only(S) == CHOOSE x \in S : TRUE

\* re.sub(p, repl, s)
Sub(p, s0, repl) ==
  Only({Rebuild(s, AllMatches(<<p>>, s), repl, 1, 1) : s \in {s0}})

\* re.findall(p, s) of a pattern whose one group is its first token
FindAll(alts, s0) ==
  Only({ LET hits == AllMatches(alts, s)
         IN {s[hits[k][1]] : k \in 1..Len(hits)} : s \in {s0} })

\* re.search(p, s): the first match, start 0 when there is none
Search(p, s0) ==
  Only({ LET starts == {i \in 1..Len(s) : MatchFrom(p, s, 1, i) # 0}
         IN IF starts = {} THEN [start |-> 0, end |-> 0]
            ELSE LET i == CHOOSE x \in starts : \A y \in starts : x <= y
                 IN [start |-> i, end |-> MatchFrom(p, s, 1, i)] : s \in {s0} })

(***************************************************************************)
(* File names and paths                                                    *)
(*                                                                         *)
(* A path is [dir, name]: the name of the directory the file is in and the *)
(* tokens of its base name.  A base name is one token, but "Cp(1).m" is    *)
(* three: "Cp(1", ")" and ".m", since ')' is a character the patterns of   *)
(* add-file tell from the others.                                          *)
(***************************************************************************)
FileName(i) == <<"f" \o ToString(i) \o ".m">>

NewSwift == [dir |-> "Utilities", name |-> <<"New.swift">>]
CopyM == [dir |-> "Utilities", name |-> <<"Cp(1", ")", ".m">>]
IconPng == [dir |-> "Icons", name |-> <<"icon.png">>]
HdrH == [dir |-> "Utilities", name |-> <<"Hdr.h">>]
InfoStrings == [dir |-> "en.lproj", name |-> <<"Info.strings">>]
MainMenu == [dir |-> "en.lproj", name |-> <<"MainMenu.xib">>]
Absent == [dir |-> "Utilities", name |-> <<"Gone.m">>]

InitFile(i) == [dir |-> "Utilities", name |-> FileName(i)]

\* os.path.basename
Basename(path) == path.name

\* os.path.basename(os.path.dirname(file_path))
DirName(path) == path.dir

\* the tokens of the path as add-file writes it
PathText(path) == <<path.dir, "/">> \o path.name

\* os.path.splitext(filename)[1].lower()
Splitext(filename) ==
  LET t == filename[Len(filename)]
  IN CASE t = "New.swift" -> ".swift"
       [] t = ".m" \/ t = "Gone.m" \/ t \in {FileName(i)[1] : i \in IdRange} -> ".m"
       [] t = "icon.png" -> ".png"
       [] t = "Hdr.h" -> ".h"
       [] t = "Info.strings" -> ".strings"
       [] t = "MainMenu.xib" -> ".xib"
       [] OTHER -> ""

get_file_type(filename) ==
  LET ext == Splitext(filename)
  IN CASE ext = ".swift" -> "sourcecode.swift"
       [] ext = ".m" -> "sourcecode.c.objc"
       [] ext = ".h" -> "sourcecode.c.h"
       [] ext = ".c" -> "sourcecode.c.c"
       [] ext = ".xib" -> "file.xib"
       [] ext = ".storyboard" -> "file.storyboard"
       [] ext = ".png" -> "image.png"
       [] ext = ".pdf" -> "image.pdf"
       [] ext = ".icns" -> "image.icns"
       [] ext = ".plist" -> "text.plist.xml"
       [] ext = ".strings" -> "text.plist.strings"
       [] ext = ".rtf" -> "text.rtf"
       [] ext = ".json" -> "text.json"
       [] ext = ".sdef" -> "sourcecode.sdef"
       [] OTHER -> "file"

is_source_file(filename) == Splitext(filename) \in {".swift", ".m", ".c"}

is_resource_file(filename) ==
  Splitext(filename) \in {".xib", ".storyboard", ".png", ".pdf", ".icns",
                          ".plist", ".strings", ".rtf", ".json", ".sdef"}

(***************************************************************************)
(* xcode_add_file.py                                                       *)
(***************************************************************************)
\* ([A-F0-9]{24}) /\* <group_name> \*/ = \{
GroupHeadPattern(group_name) ==
  <<One(Ids), Lit("/*"), Lit(group_name), Lit("*/"), Lit("="), Lit("{")>>

\* The group of the file's directory: [uuid, name], uuid "" when no record
\* is headed "<id> /* <directory> */ = {".  group_mappings maps every
\* directory it lists to itself, so the group's name is the directory's.
find_group_for_path(c, path) ==
  LET group_name == DirName(path)
      m == Search(GroupHeadPattern(group_name), c)
  IN IF m.start # 0 THEN [uuid |-> c[m.start], name |-> group_name]
     ELSE [uuid |-> "", name |-> ""]

\* (<owner> /\* <label> \*/ = \{[^}]*<key> = \([^)]*)
ListPattern(owner, label, key) ==
  <<owner, Lit("/*"), Lit(label), Lit("*/"), Lit("="), Lit("{"),
    NotStar({"}"}), Lit(key), Lit("="), Lit("("), NotStar({")"})>>

\* content[:insert_pos] + entry + content[insert_pos:], at the end of the
\* first match of p; c itself when p matches nowhere
InsertAtMatchEnd(c0, p, entry) ==
  Only({ LET m == Search(p, c)
         IN IF m.start = 0 THEN c
            ELSE SubSeq(c, 1, m.end - 1) \o entry \o SubSeq(c, m.end, Len(c))
         : c \in {c0} })

\* content.replace(marker + "\n", marker + "\n" + entry)
InsertAfterMarker(c, marker, entry) ==
  Sub(<<Lit(marker), Lit("\n")>>, c, Repl(<<marker, "\n">> \o entry, FALSE))

build_file_entry(build_file_uuid, filename, build_phase, file_ref_uuid) ==
  <<"\t", build_file_uuid, "/*">> \o filename
    \o <<"in", build_phase, "*/", "=", "{", "isa", "=", "PBXBuildFile", ";",
         "fileRef", "=", file_ref_uuid, "/*">>
    \o filename \o <<"*/", ";", "}", ";", "\n">>

file_ref_entry(file_ref_uuid, path) ==
  <<"\t", file_ref_uuid, "/*">> \o Basename(path)
    \o <<"*/", "=", "{", "isa", "=", "PBXFileReference", ";",
         "lastKnownFileType", "=", get_file_type(Basename(path)), ";",
         "name", "=">>
    \o Basename(path) \o <<";", "path", "=">> \o PathText(path)
    \o <<";", "sourceTree", "=", "SOURCE_ROOT", ";", "}", ";", "\n">>

\* "\n\t\t\t\t<uuid> /* <comment> */,"
list_entry(uuid, comment) ==
  <<"\n", "\t", uuid, "/*">> \o comment \o <<"*/", ",">>

\* steps 1 and 2: the two definition records
AddDefinitions(c, path, file_ref_uuid, build_file_uuid) ==
  LET filename == Basename(path)
      build_phase == IF is_source_file(filename) THEN "Sources" ELSE "Resources"
      c1 == IF is_source_file(filename) \/ is_resource_file(filename)
            THEN InsertAfterMarker(c, BeginBuildFile,
                   build_file_entry(build_file_uuid, filename, build_phase,
                                    file_ref_uuid))
            ELSE c
  IN InsertAfterMarker(c1, BeginFileReference, file_ref_entry(file_ref_uuid, path))

\* step 3: the group's children list.  [content, owner]: owner is the group
\* whose list took the entry, "" when none did.
AddToGroup(c0, path, file_ref_uuid) ==
  Only({ LET g == find_group_for_path(c, path)
             p == ListPattern(Lit(g.uuid), g.name, "children")
         IN IF g.uuid # "" /\ Search(p, c).start # 0
            THEN [content |-> InsertAtMatchEnd(c, p,
                                list_entry(file_ref_uuid, Basename(path))),
                  owner |-> g.uuid]
            ELSE [content |-> c, owner |-> ""]
         : c \in {c0} })

\* step 4: the build phase's files list.  [content, owner] as in step 3.
AddToBuildPhase(c0, path, build_file_uuid) ==
  Only({ LET filename == Basename(path)
             sources_pattern ==
               ListPattern(Lit(MAIN_TARGET_SOURCES_UUID), "Sources", "files")
             resources_pattern == ListPattern(One(Ids), "Resources", "files")
             ms == Search(sources_pattern, c)
             mr == Search(resources_pattern, c)
         IN IF is_source_file(filename)
            THEN IF ms.start # 0
                 THEN [content |-> InsertAtMatchEnd(c, sources_pattern,
                         list_entry(build_file_uuid, filename \o <<"in", "Sources">>)),
                       owner |-> MAIN_TARGET_SOURCES_UUID]
                 ELSE [content |-> c, owner |-> ""]
            ELSE IF is_resource_file(filename) /\ mr.start # 0
            THEN [content |-> InsertAtMatchEnd(c, resources_pattern,
                    list_entry(build_file_uuid, filename \o <<"in", "Resources">>)),
                  owner |-> c[mr.start]]
            ELSE [content |-> c, owner |-> ""]
         : c \in {c0} })

\* add_file_to_project: [content, group, phase], content the text written
\* back, group and phase the owners of the lists that took an entry.
add_file_to_project(c, path, file_ref_uuid, build_file_uuid) ==
  Only({ Only({ [content |-> p.content, group |-> g.owner, phase |-> p.owner]
                : p \in {AddToBuildPhase(g.content, path, build_file_uuid)} })
         : g \in {AddToGroup(AddDefinitions(c, path, file_ref_uuid, build_file_uuid),
                             path, file_ref_uuid)} })

(***************************************************************************)
(* xcode_remove_file.py                                                    *)
(***************************************************************************)
\* Pattern 1 without its optional group (?:\s+in\s+\w+)?
ScanPattern1NoPhase(basename) ==
  << <<One(Ids), Star(WS), Lit("/*"), Star(WS)>> \o LitSeq(basename)
       \o <<Star(WS), Lit("*/")>> >>

\* Pattern 1: ([A-F0-9]{24})\s+/\*\s*<basename>(?:\s+in\s+\w+)?\s*\*/
ScanPattern1(basename) ==
  LET head == <<One(Ids), Star(WS), Lit("/*"), Star(WS)>> \o LitSeq(basename)
      close == <<Star(WS), Lit("*/")>>
  IN << head \o <<Star(WS), Lit("in"), Star(WS), One(Words)>> \o close,
        head \o close >>

\* Pattern 2: ([A-F0-9]{24})[^;]*path\s*=\s*"?[^"]*<basename>"?\s*;
ScanPattern2(basename) ==
  << <<One(Ids), NotStar({";"}), Lit("path"), Star(WS), Lit("="), Star(WS),
       Opt({"\""}), NotStar({"\""})>>
     \o LitSeq(basename) \o <<Opt({"\""}), Star(WS), Lit(";")>> >>

\* Pattern 3: ([A-F0-9]{24})[^;]*name\s*=\s*"?<basename>"?\s*;
ScanPattern3(basename) ==
  << <<One(Ids), NotStar({";"}), Lit("name"), Star(WS), Lit("="), Star(WS),
       Opt({"\""})>>
     \o LitSeq(basename) \o <<Opt({"\""}), Star(WS), Lit(";")>> >>

find_uuids_for_file(c0, path) ==
  Only({ LET basename == Basename(path)
         IN FindAll(ScanPattern1(basename), c)
              \cup FindAll(ScanPattern2(basename), c)
              \cup FindAll(ScanPattern3(basename), c)
         : c \in {c0} })

\* \s*<uuid>\s+/\*[^*]*\*/\s*=\s*\{[^}]*\};?\n?
DefinitionPattern(uuid) ==
  <<Star(WS), Lit(uuid), Star(WS), Lit("/*"), NotStar(Stars), Lit("*/"),
    Star(WS), Lit("="), Star(WS), Lit("{"), NotStar({"}"}), Lit("}"),
    Opt({";"}), Opt({"\n"})>>

\* ,?\s*<uuid>\s+/\*[^*]*\*/,?\n?
CommentedEntryPattern(uuid) ==
  <<Opt({","}), Star(WS), Lit(uuid), Star(WS), Lit("/*"), NotStar(Stars),
    Lit("*/"), Opt({","}), Opt({"\n"})>>

\* ,?\s*<uuid>,?\n?
StandaloneEntryPattern(uuid) ==
  <<Opt({","}), Star(WS), Lit(uuid), Opt({","}), Opt({"\n"})>>

Nothing == Repl(<<>>, FALSE)

\* remove_uuid_references with the first of its three substitutions only
remove_definition_only(c, uuid) == Sub(DefinitionPattern(uuid), c, Nothing)

remove_uuid_references(c, uuid) ==
  Sub(StandaloneEntryPattern(uuid),
      Sub(CommentedEntryPattern(uuid),
          Sub(DefinitionPattern(uuid), c, Nothing),
          Nothing),
      Nothing)

\* ,(\s*\n\s*\))  ->  \1
TrailingCommaPattern == <<Lit(","), Star(WS), Lit("\n"), Star(WS), Lit(")")>>

\* \(\s*\n\s*,  ->  (\n
LeadingCommaPattern == <<Lit("("), Star(WS), Lit("\n"), Star(WS), Lit(",")>>

\* \n{3,}  ->  \n\n
BlankLinesPattern == <<Lit("\n"), Lit("\n"), Lit("\n"), Star({"\n"})>>

\* ,\s*,  ->  ,
DoubleCommaPattern == <<Lit(","), Star(WS), Lit(",")>>

cleanup_project_file(c) ==
  Sub(DoubleCommaPattern,
      Sub(BlankLinesPattern,
          Sub(LeadingCommaPattern,
              Sub(TrailingCommaPattern, c, Repl(<<>>, TRUE)),
              Repl(<<"(", "\n">>, FALSE)),
          Repl(<<"\n", "\n">>, FALSE)),
      Repl(<<",">>, FALSE))

\* the position of the first occurrence of token t in c
FirstPos(c, t) == CHOOSE i \in 1..Len(c) : c[i] = t /\ \A j \in 1..(i - 1) : c[j] # t

RECURSIVE InOrder(_, _, _)
\* "for uuid in uuids" walks a set, in an order Python leaves open: the
\* identifiers in the order of their first occurrence, or in the reverse one.
InOrder(S, c, rev) ==
  IF S = {} THEN <<>>
  ELSE LET u == CHOOSE x \in S :
                  \A y \in S : IF rev THEN FirstPos(c, y) <= FirstPos(c, x)
                                      ELSE FirstPos(c, x) <= FirstPos(c, y)
       IN <<u>> \o InOrder(S \ {u}, c, rev)

RECURSIVE RemoveAll(_, _, _)
\* "for uuid in uuids: content = remove_uuid_references(content, uuid)"
RemoveAll(c0, uuids, k) ==
  Only({ IF k > Len(uuids) THEN c
         ELSE RemoveAll(remove_uuid_references(c, uuids[k]), uuids, k + 1)
         : c \in {c0} })

RECURSIVE RemoveLoop(_, _, _, _)
\* "for filename in filenames": st is [content, total, uuids]
RemoveLoop(st0, filenames, k, rev) ==
  Only({ IF k > Len(filenames) THEN st
         ELSE LET uuids == find_uuids_for_file(st.content, filenames[k])
              IN IF uuids = {} THEN RemoveLoop(st, filenames, k + 1, rev)
                 ELSE RemoveLoop(
                        [content |-> RemoveAll(st.content,
                                               InOrder(uuids, st.content, rev), 1),
                         total |-> st.total + Cardinality(uuids),
                         uuids |-> st.uuids \cup uuids],
                        filenames, k + 1, rev)
         : st \in {st0} })

\* remove_files_from_project: [content, total, uuids, wrote], content the
\* text in memory after the normalizer, wrote whether it was written back
remove_files_from_project(original_content, filenames, rev) ==
  Only({ LET cleaned == cleanup_project_file(st.content)
         IN [content |-> cleaned, total |-> st.total, uuids |-> st.uuids,
             wrote |-> cleaned # original_content]
         : st \in {RemoveLoop([content |-> original_content, total |-> 0,
                               uuids |-> {}], filenames, 1, rev)} })

(***************************************************************************)
(* The manifest the scripts start from: n source files f1.m .. fn.m, each  *)
(* with a file reference, a build file, an entry of the Utilities group    *)
(* and an entry of the Sources build phase; an empty Resources build       *)
(* phase.  The layout is Xcode's: one record a line in the first two       *)
(* sections, one list entry a line, each followed by a comma.  Attributes  *)
(* no pattern tells apart are left out.                                    *)
(***************************************************************************)
InitBuildFile(i) == build_file_entry(BldId(i), FileName(i), "Sources", RefId(i))

InitFileRef(i) ==
  <<"\t", RefId(i), "/*">> \o FileName(i)
    \o <<"*/", "=", "{", "isa", "=", "PBXFileReference", ";", "path", "=">>
    \o FileName(i) \o <<";", "}", ";", "\n">>

InitChild(i) == <<"\t", RefId(i), "/*">> \o FileName(i) \o <<"*/", ",", "\n">>

InitSource(i) ==
  <<"\t", BldId(i), "/*">> \o FileName(i) \o <<"in", "Sources", "*/", ",", "\n">>

InitRecord(kind, i) ==
  CASE kind = "buildFile" -> InitBuildFile(i)
    [] kind = "fileRef" -> InitFileRef(i)
    [] kind = "child" -> InitChild(i)
    [] kind = "source" -> InitSource(i)

RECURSIVE InitRecords(_, _, _)
\* the records, or the list entries, of the files i .. n
InitRecords(kind, i, n) ==
  IF i > n THEN <<>> ELSE InitRecord(kind, i) \o InitRecords(kind, i + 1, n)

ListRecord(uuid, label, isa, key, entries) ==
  <<"\t", uuid, "/*", label, "*/", "=", "{", "\n",
    "\t", "isa", "=", isa, ";", "\n",
    "\t", key, "=", "(", "\n">>
    \o entries
    \o <<"\t", ")", ";", "\n", "\t", "}", ";", "\n">>

Manifest(n) ==
  <<BeginBuildFile, "\n">> \o InitRecords("buildFile", 1, n)
    \o <<EndBuildFile, "\n", "\n", BeginFileReference, "\n">>
    \o InitRecords("fileRef", 1, n)
    \o <<EndFileReference, "\n", "\n">>
    \o ListRecord(GroupId, "Utilities", "PBXGroup", "children",
                  InitRecords("child", 1, n))
    \o <<"\n">>
    \o ListRecord(MAIN_TARGET_SOURCES_UUID, "Sources", "PBXSourcesBuildPhase",
                  "files", InitRecords("source", 1, n))
    \o <<"\n">>
    \o ListRecord(ResourcesId, "Resources", "PBXResourcesBuildPhase", "files", <<>>)

(***************************************************************************)
(* State: the manifest file, and what each invocation so far was given and *)
(* did (hist), the latest last.                                            *)
(***************************************************************************)
\* the files add-file is run on
AddFiles == {NewSwift, CopyM, IconPng, HdrH}

\* the lists of paths remove-files is run on
RemoveArgs ==
  {<<path>> : path \in {InitFile(1), InitFile(2), NewSwift, CopyM, IconPng,
                        HdrH, Absent}}
    \cup {<<InitFile(1), InitFile(2)>>, <<Absent, InitFile(1)>>}

NoPath == [dir |-> "", name |-> <<>>]

\* what one invocation was given and did
Op(kind, before, path, filenames, uuids, total, wrote, group, phase) ==
  [op |-> kind, before |-> before, path |-> path, filenames |-> filenames,
   uuids |-> uuids, total |-> total, wrote |-> wrote, group |-> group,
   phase |-> phase]

\* generate_uuid: uuid.uuid4().hex[:24].upper().  The k-th identifier of the
\* behaviour; that it differs from every identifier handed out before and
\* from those of the manifest is taken from uuid4.
generate_uuid(k) == NewId(k)

Generated == 2 * Cardinality({k \in 1..Len(hist) : hist[k].op = "add"})

Init ==
  /\ content \in {Manifest(n) : n \in 1..MaxFiles}
  /\ hist = <<>>

\* python3 Scripts/xcode_add_file.py <path>, the file and the manifest there
AddFile(path) ==
  /\ Len(hist) < MaxOps
  /\ LET file_ref_uuid == generate_uuid(Generated + 1)
         build_file_uuid == generate_uuid(Generated + 2)
     IN \E res \in {add_file_to_project(content, path, file_ref_uuid,
                                        build_file_uuid)} :
          /\ content' = res.content
          /\ hist' = Append(hist,
               Op("add", content, path, <<>>, <<file_ref_uuid, build_file_uuid>>,
                  0, TRUE, res.group, res.phase))

\* python3 Scripts/xcode_remove_file.py <path> ..., the manifest there
RemoveFiles(filenames, rev) ==
  /\ Len(hist) < MaxOps
  /\ \E res \in {remove_files_from_project(content, filenames, rev)} :
       /\ content' = IF res.wrote THEN res.content ELSE content
       /\ hist' = Append(hist,
            Op("remove", content, NoPath, filenames, res.uuids, res.total,
               res.wrote, "", ""))

Next ==
  \/ \E path \in AddFiles : AddFile(path)
  \/ \E filenames \in RemoveArgs, rev \in BOOLEAN : RemoveFiles(filenames, rev)

Spec == Init /\ [][Next]_vars

(***************************************************************************)
(* The normalizer alone, on every text of at most MaxLen tokens over the   *)
(* tokens its four patterns tell apart, run twice.                         *)
(***************************************************************************)
NormTokens == {",", "\n", "\t", "(", ")", "x"}

Texts(n) == UNION {[1..k -> NormTokens] : k \in 0..n}

NormInit ==
  /\ content \in Texts(MaxLen)
  /\ hist = <<>>

Cleanup ==
  /\ Len(hist) < 2
  /\ \E res \in {cleanup_project_file(content)} :
       /\ content' = res
       /\ hist' = Append(hist,
            Op("cleanup", content, NoPath, <<>>, {}, 0, res # content, "", ""))

NormNext == Cleanup

NormSpec == NormInit /\ [][NormNext]_vars

(***************************************************************************)
(* The scanner alone, on one definition record.                            *)
(***************************************************************************)
Isa == <<"isa", "=", "PBXFileReference", ";">>

Attr(key, value) ==
  IF value = <<>> THEN <<>> ELSE <<key, "=">> \o value \o <<";">>

\* <id> /* <comment>[ in Sources] */ = {isa = ...; name = ...; path = ...; };
\* with isa the first attribute, as Xcode writes a record, or the last
ScanRecord(comment, phase, isaFirst, name, path) ==
  <<"\t", RecordId, "/*">> \o comment
    \o (IF phase THEN <<"in", "Sources">> ELSE <<>>)
    \o <<"*/", "=", "{">>
    \o (IF isaFirst THEN Isa ELSE <<>>)
    \o Attr("name", name) \o Attr("path", path)
    \o (IF isaFirst THEN <<>> ELSE Isa)
    \o <<"}", ";", "\n">>

English == <<"English">>

ScanComments == {InfoStrings.name, English}
ScanNames == {<<>>, InfoStrings.name, English}
ScanPaths ==
  {<<>>, InfoStrings.name, PathText(InfoStrings),
   <<"\"">> \o PathText(InfoStrings) \o <<"\"">>, PathText(MainMenu)}

ScanTexts ==
  {ScanRecord(comment, phase, isaFirst, name, path) :
     comment \in ScanComments, phase \in BOOLEAN, isaFirst \in BOOLEAN,
     name \in ScanNames, path \in ScanPaths}

ScanQueries == {InfoStrings, MainMenu}

ScanInit ==
  /\ content \in ScanTexts
  /\ hist = <<>>

Scan(path) ==
  /\ hist = <<>>
  /\ hist' = <<Op("scan", content, path, <<>>,
                  find_uuids_for_file(content, path), 0, FALSE, "", "")>>
  /\ UNCHANGED content

ScanNext == \E path \in ScanQueries : Scan(path)

ScanSpec == ScanInit /\ [][ScanNext]_vars

(***************************************************************************)
(* The structure of a manifest text: its definition records and its        *)
(* ordered lists, read from the tokens outside comments.                   *)
(***************************************************************************)
Range(seq) == {seq[i] : i \in 1..Len(seq)}

Occurs(s, t) == \E i \in 1..Len(s) : s[i] = t

NameOccurs(s, name) ==
  \E i \in 1..(Len(s) - Len(name) + 1) : SubSeq(s, i, i + Len(name) - 1) = name

\* a comment runs from "/*" to the next "*/"
InComment(s, openers, i) ==
  \E j \in openers : j < i /\ \A m \in (j + 1)..(i - 1) : s[m] # "*/"

\* the tokens of s that are neither white space nor comment, in order
Code(s0) ==
  Only({ LET openers == {j \in 1..Len(s) : s[j] = "/*"}
             Keep(i) == s[i] \notin WS \cup Stars /\ ~InComment(s, openers, i)
             idx == SelectSeq([i \in 1..Len(s) |-> i], Keep)
         IN [k \in 1..Len(idx) |-> s[idx[k]]]
         : s \in {s0} })

\* <id> = {
Headers(c) ==
  {k \in 1..(Len(c) - 2) : c[k] \in Ids /\ c[k + 1] = "=" /\ c[k + 2] = "{"}

\* the identifiers that have a definition record
DefinedIds(s) == Only({ {c[k] : k \in Headers(c)} : c \in {Code(s)} })

\* children = (  or  files = (
ListOpens(c) ==
  {k \in 1..(Len(c) - 2) :
     c[k] \in {"children", "files"} /\ c[k + 1] = "=" /\ c[k + 2] = "("}

Owner(c, k) ==
  LET before == {h \in Headers(c) : h < k}
  IN IF before = {} THEN ""
     ELSE c[CHOOSE h \in before : \A g \in before : g <= h]

ListBody(c, k) ==
  LET closes == {j \in (k + 3)..Len(c) : c[j] = ")"}
      close == IF closes = {} THEN Len(c) + 1
               ELSE CHOOSE j \in closes : \A m \in closes : j <= m
  IN SubSeq(c, k + 3, close - 1)

\* the ordered lists of s: the record that owns the list, the list's key and
\* the tokens between its parentheses
Lists(s) ==
  Only({ {[owner |-> Owner(c, k), key |-> c[k], body |-> ListBody(c, k)] :
            k \in ListOpens(c)} : c \in {Code(s)} })

IsId(t) == t \in Ids

\* the entries of a list, in order
IdsOf(body) == SelectSeq(body, IsId)

\* entries, each pair of neighbours separated by exactly one comma
WellFormed(body) ==
  \A m \in 1..Len(body) :
    IF m % 2 = 1 THEN body[m] \in Ids ELSE body[m] = ","

ListOf(s, owner, key) ==
  LET found == {l \in Lists(s) : l.owner = owner /\ l.key = key}
  IN IF found = {} THEN <<>> ELSE (CHOOSE l \in found : TRUE).body

ListIds(s) ==
  {[owner |-> l.owner, key |-> l.key, ids |-> IdsOf(l.body)] : l \in Lists(s)}

\* <key> = <d>;
IsAttrValue(s, key, d) ==
  \E i \in 1..(Len(s) - 2) : s[i] = key /\ s[i + 1] = "=" /\ s[i + 2] = d

\* the values of the attribute key in the records of s, quotes left out
AttrValues(s, key) ==
  Only({ { LET ends == {j \in (k + 2)..Len(c) : c[j] = ";"}
               end == IF ends = {} THEN Len(c) + 1
                      ELSE CHOOSE j \in ends : \A m \in ends : j <= m
               NotQuote(t) == t # "\""
           IN SelectSeq(SubSeq(c, k + 2, end - 1), NotQuote)
           : k \in {a \in 1..(Len(c) - 1) : c[a] = key /\ c[a + 1] = "="} }
         : c \in {Code(s)} })

\* the comment that follows the first occurrence of the identifier d
CommentOf(s, d) ==
  LET at == CHOOSE i \in 1..Len(s) : s[i] = d /\ \A j \in 1..(i - 1) : s[j] # d
      closes == {j \in (at + 2)..Len(s) : s[j] = "*/"}
      close == CHOOSE j \in closes : \A m \in closes : j <= m
  IN SubSeq(s, at + 2, close - 1)

\* <id> /* comment */ = {isa = <Type>; ...
UsualForm(s) ==
  \E i \in 1..(Len(s) - 1) : s[i] = "{" /\ s[i + 1] = "isa"

EndsWith(v, name) ==
  Len(v) >= Len(name) /\ SubSeq(v, Len(v) - Len(name) + 1, Len(v)) = name

\* a is followed by b with nothing but white space between them
Stray(s, a, b) ==
  \E i \in 1..Len(s) :
    /\ s[i] = a
    /\ \E j \in (i + 1)..Len(s) :
         s[j] = b /\ \A m \in (i + 1)..(j - 1) : s[m] \in WS

Last == hist[Len(hist)]

(***************************************************************************)
(* Properties                                                              *)
(***************************************************************************)

\* C1: after remove-files, no identifier it deleted (each one the scanner
\* returned for a requested name) occurs anywhere in the resulting text:
\* not as the head of a definition record, not as a list entry, not as an
\* attribute value.
NoDanglingReferences ==
  (hist # <<>> /\ Last.op = "remove") =>
    \A d \in Last.uuids : ~Occurs(content, d)

\* C1: a removal has deleted an identifier that had a definition record, was
\* an entry of a list and was the fileRef of another record.
RemovedEverywhere ==
  /\ hist # <<>>
  /\ Last.op = "remove"
  /\ \E d \in Last.uuids :
       /\ d \in DefinedIds(Last.before)
       /\ \E l \in Lists(Last.before) : d \in Range(IdsOf(l.body))
       /\ IsAttrValue(Last.before, "fileRef", d)
       /\ ~Occurs(content, d)

\* C2: when add-file inserts an entry d into the children list of the
\* resolved group or into the files list of a build phase, the entries of
\* that list afterwards are the entries it had before, in their order,
\* followed by d.
OrderPreservedOnAdd ==
  (hist # <<>> /\ Last.op = "add") =>
    /\ Last.group # "" =>
         IdsOf(ListOf(content, Last.group, "children"))
           = Append(IdsOf(ListOf(Last.before, Last.group, "children")),
                    Last.uuids[1])
    /\ Last.phase # "" =>
         IdsOf(ListOf(content, Last.phase, "files"))
           = Append(IdsOf(ListOf(Last.before, Last.phase, "files")),
                    Last.uuids[2])

\* the add-file of F on a manifest that does not hold the base name of F,
\* followed by the remove-files of F
AddThenRemove ==
  /\ Len(hist) >= 2
  /\ hist[Len(hist) - 1].op = "add"
  /\ Last.op = "remove"
  /\ Last.filenames = <<hist[Len(hist) - 1].path>>
  /\ ~NameOccurs(hist[Len(hist) - 1].before, Basename(hist[Len(hist) - 1].path))

\* C3: add-file(F) and then remove-files(F), on a manifest M in which the
\* base name of F does not occur, give a manifest with the definition records
\* of M and the lists of M, members and order, and without the identifiers
\* the add generated.
RoundTrip ==
  AddThenRemove =>
    /\ DefinedIds(content) = DefinedIds(hist[Len(hist) - 1].before)
    /\ ListIds(content) = ListIds(hist[Len(hist) - 1].before)
    /\ \A d \in Range(hist[Len(hist) - 1].uuids) : ~Occurs(content, d)

\* C3: a round trip whose add inserted both definition records, a group
\* entry and a build phase entry, and whose remove deleted both identifiers.
RoundTripDone ==
  /\ AddThenRemove
  /\ hist[Len(hist) - 1].group # ""
  /\ hist[Len(hist) - 1].phase # ""
  /\ Range(hist[Len(hist) - 1].uuids) \subseteq DefinedIds(Last.before)
  /\ Last.uuids = Range(hist[Len(hist) - 1].uuids)
  /\ ListIds(content) = ListIds(hist[Len(hist) - 1].before)

\* C4: a second run of the normalizer changes nothing:
\* cleanup_project_file(cleanup_project_file(T)) = cleanup_project_file(T).
NormalizerIdempotent ==
  (Len(hist) = 2 /\ Last.op = "cleanup") => content = Last.before

\* C5: when the scanner finds no identifier for any of the names given,
\* remove-files leaves the manifest text as it was, writes nothing and
\* reports zero references removed.
ZeroMatchNoOp ==
  (hist # <<>> /\ Last.op = "remove" /\ Last.uuids = {}) =>
    /\ content = Last.before
    /\ ~Last.wrote
    /\ Last.total = 0

\* C7: after any sequence of add-file and remove-files, every identifier in
\* a children list or a files list has a definition record.
EveryListReferenceResolves ==
  \A l \in Lists(content) : Range(IdsOf(l.body)) \subseteq DefinedIds(content)

\* C8: the text remove-files produces has no three consecutive newlines, no
\* comma with only white space between it and a closing parenthesis, no comma
\* with only white space between an opening parenthesis and it, and no two
\* commas with only white space between them.
RemoveLeavesTidyText ==
  (hist # <<>> /\ Last.op = "remove") =>
    /\ ~\E i \in 1..(Len(content) - 2) :
          content[i] = "\n" /\ content[i + 1] = "\n" /\ content[i + 2] = "\n"
    /\ ~Stray(content, ",", ")")
    /\ ~Stray(content, "(", ",")
    /\ ~Stray(content, ",", ",")

\* C9: the scanner returns the identifier of a record of the usual form (isa
\* its first attribute) whenever (a) the comment after the identifier is the
\* name, with " in <phase>" or without, or (b) the record's path attribute
\* ends in the name, or (c) the record's name attribute is the name.
ScannerComplete ==
  (hist # <<>> /\ Last.op = "scan" /\ UsualForm(content)) =>
    LET name == Basename(Last.path)
        comment == CommentOf(content, RecordId)
        a == comment = name \/ \E w \in Words : comment = name \o <<"in", w>>
        b == \E v \in AttrValues(content, "path") : EndsWith(v, name)
        c == \E v \in AttrValues(content, "name") : v = name
    IN (a \/ b \/ c) => RecordId \in Last.uuids

\* C10: when remove-files deletes entries of a well-formed list, the other
\* entries of the list are still there, in their order, each pair of
\* neighbours separated by exactly one comma.
ListsStayWellFormed ==
  (hist # <<>> /\ Last.op = "remove") =>
    \A l \in Lists(Last.before) :
      (/\ WellFormed(l.body)
       /\ l.owner \notin Last.uuids
       /\ Range(IdsOf(l.body)) \cap Last.uuids # {}) =>
        LET Kept(t) == t \notin Last.uuids
            body == ListOf(content, l.owner, l.key)
        IN /\ IdsOf(body) = SelectSeq(IdsOf(l.body), Kept)
           /\ WellFormed(body)

====
